---- MODULE Spec2Model ----
(***************************************************************************)
(* A model of src/error_reporter.rs: the ErrorReporter diagnostic builder  *)
(* (new, span_label, render) and the annotation layout it performs.        *)
(* The code map (codemap::CodeMap) and the character grid (TextBuffer2D)   *)
(* are collaborators of error_reporter.rs; they are modelled by their      *)
(* interface.  Rows and columns are 0-based as in the code; TLA+ sequences *)
(* are 1-based, so row r of the grid is buffer[r + 1].                     *)
(***************************************************************************)
EXTENDS Integers, Sequences, FiniteSets, TLC

VARIABLES level, primary_span, primary_msg, span_labels, cm,
          pc, renders, buffer, out, prev_out, file_order, lines

vars == <<level, primary_span, primary_msg, span_labels, cm,
          pc, renders, buffer, out, prev_out, file_order, lines>>

----------------------------------------------------------------------------
(* Bounds of the model *)

\* Columns of a source line are 0..MaxCol; column MaxCol is the line end.
MaxCol == 2

\* Number of span_label calls on a diagnostic confined to one source line.
MaxLabels == 2

\* Number of span_label calls on a diagnostic spread over files and lines.
MaxDiagLabels == 3

\* Number of render calls on one diagnostic.
MaxRenders == 2

----------------------------------------------------------------------------
(* Source files known to the code map *)

\* File names, in alphabetical order.
FileNames == <<"a.rs", "b.rs">>

\* Line numbers of every file (1-based, as the code map reports them).
LineNumbers == {1, 2}

LineWidth == MaxCol + 1

FileLen == Cardinality(LineNumbers) * LineWidth

Positions == 0 .. (Len(FileNames) * FileLen - 1)

\* Position of a file name in the alphabetical order.
NameIndex(f) == CHOOSE i \in 1..Len(FileNames) : FileNames[i] = f

\* The literal text of a source line: MaxCol characters before the line end.
SourceText == [i \in 1..MaxCol |-> "s"]

Digit(n) == <<"0", "1", "2", "3", "4", "5", "6", "7", "8", "9">>[n + 1]

----------------------------------------------------------------------------
(* Option<String> *)

None == [some |-> FALSE, text |-> <<>>]

Some(t) == [some |-> TRUE, text |-> t]

LabelTexts == {<<"x">>}

Labels == {None} \cup {Some(t) : t \in LabelTexts}

\* Byte order of the characters that occur in labels.
CharRank == [c \in {"x", "y"} |-> IF c = "x" THEN 1 ELSE 2]

----------------------------------------------------------------------------
(* codemap::CodeMap, as error_reporter.rs uses it *)

\* What the code map answers for the line a span starts on:
\*   "ok"      span_to_lines is Ok, one covered line, its text exists
\*   "notext"  span_to_lines is Ok, get_line finds no text (None)
\*   "err"     span_to_lines is Err
\*   "nolines" span_to_lines is Ok with an empty list of covered lines
LookupKinds == {"ok", "notext", "err", "nolines"}

lookup_char_pos(pos) ==
    [file |-> FileNames[(pos \div FileLen) + 1],
     line |-> ((pos % FileLen) \div LineWidth) + 1,
     col  |-> pos % LineWidth]

span_to_filename(span) == lookup_char_pos(span.lo).file

span_to_string(span) ==
    LET lo == lookup_char_pos(span.lo)
    IN  <<lo.file, ":", Digit(lo.line), ":", Digit(lo.col + 1)>>

\* The answer of the code map for the line on which span starts.
span_to_lines(map, span) ==
    LET lo == lookup_char_pos(span.lo)
    IN  map[<<lo.file, lo.line>>]

AllOk == [k \in {<<FileNames[i], l>> : i \in 1..Len(FileNames), l \in LineNumbers} |-> "ok"]

\* Code maps in which at most one line is bad.
CodeMaps ==
    {AllOk} \cup
    {[AllOk EXCEPT ![k] = kind] : k \in DOMAIN AllOk, kind \in LookupKinds \ {"ok"}}

----------------------------------------------------------------------------
(* TextBuffer2D: a grid of styled characters that grows on demand *)

NoStyleCell == [ch |-> " ", style |-> "NoStyle"]

ensure_lines(buf, line) ==
    IF line >= Len(buf)
    THEN buf \o [i \in 1..(line + 1 - Len(buf)) |-> <<>>]
    ELSE buf

putc(buf, line, col, chr, style) ==
    LET b    == ensure_lines(buf, line)
        row  == b[line + 1]
        cell == [ch |-> chr, style |-> style]
        new  == IF col < Len(row)
                THEN [row EXCEPT ![col + 1] = cell]
                ELSE row \o [i \in 1..(col - Len(row)) |-> NoStyleCell] \o <<cell>>
    IN  [b EXCEPT ![line + 1] = new]

RECURSIVE puts(_, _, _, _, _)
puts(buf, line, col, string, style) ==
    IF string = <<>>
    THEN buf
    ELSE puts(putc(buf, line, col, Head(string), style), line, col + 1, Tail(string), style)

set_style(buf, line, col, style) ==
    IF Len(buf) > line /\ Len(buf[line + 1]) > col
    THEN [buf EXCEPT ![line + 1][col + 1].style = style]
    ELSE buf

\* The column at which append starts writing on a row.
append_col(buf, line) == IF line >= Len(buf) THEN 0 ELSE Len(buf[line + 1])

append(buf, line, string, style) == puts(buf, line, append_col(buf, line), string, style)

num_lines(buf) == Len(buf)

----------------------------------------------------------------------------
(* Annotation: its derived ordering, the sort, the overlap test *)

check_old_school == FALSE

RECURSIVE string_lt(_, _)
string_lt(s, t) ==
    IF t = <<>> THEN FALSE
    ELSE IF s = <<>> THEN TRUE
    ELSE IF Head(s) = Head(t) THEN string_lt(Tail(s), Tail(t))
    ELSE CharRank[Head(s)] < CharRank[Head(t)]

\* Option<String>: None sorts before Some, two Some by their strings.
option_lt(a, b) == IF a.some THEN b.some /\ string_lt(a.text, b.text) ELSE b.some

bool_lt(a, b) == ~a /\ b

\* A comparison by the two columns only.
annotation_lt_columns(a, b) ==
    \/ a.start_col < b.start_col
    \/ a.start_col = b.start_col /\ a.end_col < b.end_col

\* #[derive(PartialOrd, Ord)]: lexicographic over the fields in declaration order.
annotation_lt(a, b) ==
    \/ a.start_col < b.start_col
    \/ /\ a.start_col = b.start_col
       /\ \/ a.end_col < b.end_col
          \/ /\ a.end_col = b.end_col
             /\ \/ bool_lt(a.is_primary, b.is_primary)
                \/ /\ a.is_primary = b.is_primary
                   /\ \/ bool_lt(a.is_minimized, b.is_minimized)
                      \/ /\ a.is_minimized = b.is_minimized
                         /\ option_lt(a.label, b.label)

\* Vec::sort is a stable sort: an element goes after every element not greater.
RECURSIVE insert_sorted(_, _)
insert_sorted(s, a) ==
    IF s = <<>> THEN <<a>>
    ELSE IF annotation_lt(a, Head(s)) THEN <<a>> \o s
    ELSE <<Head(s)>> \o insert_sorted(Tail(s), a)

RECURSIVE sort(_)
sort(s) ==
    IF s = <<>> THEN <<>>
    ELSE insert_sorted(sort(SubSeq(s, 1, Len(s) - 1)), s[Len(s)])

\* (start..end).contains(x)
range_contains(start, end, x) == start <= x /\ x < end

\* An overlap test that looks from one side only.
overlaps_one_sided(a1, a2) == range_contains(a2.start_col, a2.end_col, a1.start_col)

overlaps(a1, a2) ==
    \/ range_contains(a2.start_col, a2.end_col, a1.start_col)
    \/ range_contains(a1.start_col, a1.end_col, a2.start_col)

----------------------------------------------------------------------------
(* ErrorReporter::render_header *)

level_to_string(l) == IF l = "Error" THEN <<"e", "r", "r", "o", "r">> ELSE <<"w", "a", "r", "n", "i", "n", "g">>

render_header(buf) ==
    LET b1 == append(buf, 0, level_to_string(level), "Level")
        b2 == append(b1, 0, <<":", " ">>, "HeaderMsg")
        b3 == append(b2, 0, primary_msg, "HeaderMsg")
    IN  append(b3, 1, span_to_string(primary_span), "LineAndColumn")

----------------------------------------------------------------------------
(* ErrorReporter::render_source_lines, first loop: the annotations *)

\* The Annotation pushed for one span label.
make_annotation(span_label) ==
    LET lo == lookup_char_pos(span_label.span.lo)
        hi == lookup_char_pos(span_label.span.hi)
        is_minimized == lo.line # hi.line
        start_col == lo.col
        end_col_0 == IF lo.line # hi.line THEN lo.col + 1 ELSE hi.col
        end_col == IF start_col = end_col_0 THEN end_col_0 + 1 ELSE end_col_0
    IN  [start_col    |-> lo.col,
         end_col      |-> hi.col,
         is_primary   |-> span_label.is_primary,
         is_minimized |-> is_minimized,
         label        |-> span_label.label]

\* file_map after the span labels have been folded in, in order.
\* A HashMap is a function; a missing key is outside its domain.
RECURSIVE build_file_map(_, _)
build_file_map(labels, file_map) ==
    IF labels = <<>> THEN file_map
    ELSE
      LET span_label == Head(labels)
          filename   == span_to_filename(span_label.span)
          line_map   == IF filename \in DOMAIN file_map THEN file_map[filename] ELSE <<>>
          lo         == lookup_char_pos(span_label.span.lo)
          line_entry == IF lo.line \in DOMAIN line_map
                        THEN line_map[lo.line]
                        ELSE [span |-> span_label.span, annotations |-> <<>>]
          new_entry  == [line_entry EXCEPT
                           !.annotations = Append(@, make_annotation(span_label))]
          new_lines  == [l \in DOMAIN line_map \cup {lo.line} |->
                           IF l = lo.line THEN new_entry ELSE line_map[l]]
          new_map    == [f \in DOMAIN file_map \cup {filename} |->
                           IF f = filename THEN new_lines ELSE file_map[f]]
      IN  build_file_map(Tail(labels), new_map)

\* all_lines.sort(): the keys of a line map in ascending order.
RECURSIVE sorted_keys(_)
sorted_keys(S) ==
    IF S = {} THEN <<>>
    ELSE LET m == CHOOSE x \in S : \A y \in S : x <= y
         IN  <<m>> \o sorted_keys(S \ {m})

----------------------------------------------------------------------------
(* ErrorReporter::render_source_line: the layout of one Line *)

underline_style(annotation) ==
    IF annotation.is_primary THEN "UnderlinePrimary" ELSE "UnderlineSecondary"

label_style(annotation) ==
    IF annotation.is_primary THEN "LabelPrimary" ELSE "LabelSecondary"

\* for p in annotation.start_col..annotation.end_col, from p on.
RECURSIVE highlight_annotation(_, _, _, _, _)
highlight_annotation(buf, line_offset, annotation, p, old_school) ==
    IF p >= annotation.end_col THEN buf
    ELSE
      LET b1 == IF old_school
                THEN putc(buf, line_offset + 1, p,
                          IF p = annotation.start_col THEN "^" ELSE "~",
                          IF annotation.is_primary THEN "UnderlinePrimary" ELSE "OldSkoolNote")
                ELSE putc(buf, line_offset + 1, p,
                          IF annotation.is_primary THEN "^" ELSE "-",
                          underline_style(annotation))
          b2 == IF ~old_school /\ ~annotation.is_minimized
                THEN set_style(b1, line_offset, p, underline_style(annotation))
                ELSE b1
      IN  highlight_annotation(b2, line_offset, annotation, p + 1, old_school)

\* for annotation in &annotations: the highlight line.
RECURSIVE highlight_line(_, _, _, _)
highlight_line(buf, line_offset, annotations, old_school) ==
    IF annotations = <<>> THEN buf
    ELSE highlight_line(
           highlight_annotation(buf, line_offset, Head(annotations),
                                Head(annotations).start_col, old_school),
           line_offset, Tail(annotations), old_school)

\* A variant of the test that looks at the labeled annotations only.
fits_among_labeled(last, previous, unlabeled_annotations) ==
    \A i \in 1..Len(previous) : ~overlaps(previous[i], last)

\* The trailing-label test: no other annotation of the line overlaps last.
fits_on_highlight_line(last, previous, unlabeled_annotations) ==
    \A i \in 1..Len(previous \o unlabeled_annotations) :
        ~overlaps((previous \o unlabeled_annotations)[i], last)

\* One row too few for the connectors.
blank_lines_short(comes_after) == 2 + comes_after

blank_lines(comes_after) == 3 + comes_after

\* for index in 2..blank_lines: the `|` of one annotation, from row index on.
\* st is the grid together with the log of the writes made to it.
RECURSIVE draw_connector(_, _, _, _, _, _)
draw_connector(st, line_offset, annotation, owner, index, limit) ==
    IF index >= limit THEN st
    ELSE draw_connector(
           [buffer |-> putc(st.buffer, line_offset + index, annotation.start_col,
                            "|", underline_style(annotation)),
            writes |-> Append(st.writes,
                              [owner |-> owner, op |-> "putc", row |-> line_offset + index,
                               col |-> annotation.start_col, text |-> <<"|">>])],
           line_offset, annotation, owner, index + 1, limit)

\* for (index, annotation) in labeled_annotations.iter().enumerate(), from index on.
RECURSIVE stack_labels(_, _, _, _)
stack_labels(st, line_offset, labeled_annotations, index) ==
    IF index >= Len(labeled_annotations) THEN st
    ELSE
      LET annotation  == labeled_annotations[index + 1]
          comes_after == Len(labeled_annotations) - index - 1
          rows        == blank_lines(comes_after)
          s1 == draw_connector(st, line_offset, annotation, index, 2, rows)
          s2 == [buffer |-> puts(s1.buffer, line_offset + rows, annotation.start_col,
                                 annotation.label.text, label_style(annotation)),
                 writes |-> Append(s1.writes,
                                   [owner |-> index, op |-> "puts", row |-> line_offset + rows,
                                    col |-> annotation.start_col,
                                    text |-> annotation.label.text])]
      IN  stack_labels(s2, line_offset, labeled_annotations, index + 1)

\* The part of the call after the partition into labeled and unlabeled
\* annotations: the label on the highlight line and the stacked labels.
\* b1 is the grid with the highlight line drawn.  The result is the record of
\* the call: the grid after it and the locals of the call.
write_labels(b1, line, line_offset, source_string, annotations, labeled_annotations, unlabeled_annotations, old_school) ==
    LET has_labels == labeled_annotations # <<>> /\ ~old_school
        last       == labeled_annotations[Len(labeled_annotations)]
        previous   == SubSeq(labeled_annotations, 1, Len(labeled_annotations) - 1)
        fits       == has_labels /\ fits_on_highlight_line(last, previous, unlabeled_annotations)
        b2         == IF fits
                      THEN append(b1, line_offset + 1, <<" ">> \o last.label.text,
                                  label_style(last))
                      ELSE b1
        pending    == IF ~has_labels THEN <<>>
                      ELSE IF fits THEN previous ELSE labeled_annotations
        s3         == stack_labels([buffer |-> b2, writes |-> <<>>], line_offset, pending, 0)
    IN  [panicked      |-> FALSE,
         buffer        |-> s3.buffer,
         span          |-> line.span,
         line_offset   |-> line_offset,
         source_string |-> source_string,
         pushed        |-> line.annotations,
         annotations   |-> annotations,
         labeled       |-> labeled_annotations,
         unlabeled     |-> unlabeled_annotations,
         on_highlight  |-> fits,
         label_col     |-> append_col(b1, line_offset + 1),
         pending       |-> pending,
         writes        |-> s3.writes]

\* The part of the call after the sort: the highlight line and the partition.
\* b0 is the grid with the source text appended.
write_highlight(b0, line, line_offset, source_string, annotations, old_school) ==
    write_labels(highlight_line(b0, line_offset, annotations, old_school),
                 line, line_offset, source_string, annotations,
                 SelectSeq(annotations, LAMBDA a : a.label.some),
                 SelectSeq(annotations, LAMBDA a : ~a.label.some),
                 old_school)

\* panicked is TRUE when an unwrap failed; the call then wrote nothing.
\* A Line always holds an annotation, so the early return on an empty
\* annotation list writes what write_highlight writes for it: nothing.
render_source_line(buf, map, line) ==
    LET result        == span_to_lines(map, line.span)
        source_string == IF result = "ok" THEN SourceText ELSE <<>>
        line_offset   == num_lines(buf)
    IN  IF result \in {"err", "nolines"}
        THEN [panicked |-> TRUE, buffer |-> buf]
        ELSE write_highlight(append(buf, line_offset, source_string, "Quotation"),
                             line, line_offset, source_string,
                             sort(line.annotations), check_old_school)

----------------------------------------------------------------------------
(* ErrorReporter::render_source_lines, second loop, and ErrorReporter::render *)

\* The locals of a render_source_line call, without the grid.
locals(r) == [f \in DOMAIN r \ {"buffer", "panicked"} |-> r[f]]

\* for line in all_lines, until an unwrap panics.
RECURSIVE render_lines_of_file(_, _, _, _)
render_lines_of_file(st, map, line_map, all_lines) ==
    IF all_lines = <<>> \/ st.panicked THEN st
    ELSE
      LET r == render_source_line(st.buffer, map, line_map[Head(all_lines)])
      IN  render_lines_of_file(
            [panicked |-> r.panicked,
             buffer   |-> r.buffer,
             lines    |-> IF r.panicked THEN st.lines ELSE Append(st.lines, locals(r))],
            map, line_map, Tail(all_lines))

\* for fname in file_map.keys(), the keys coming in the order key_order.
RECURSIVE render_files(_, _, _, _)
render_files(st, map, file_map, key_order) ==
    IF key_order = <<>> \/ st.panicked THEN st
    ELSE render_files(
           render_lines_of_file(st, map, file_map[Head(key_order)],
                                sorted_keys(DOMAIN file_map[Head(key_order)])),
           map, file_map, Tail(key_order))

render_source_lines(buf, map, labels, key_order) ==
    render_files([panicked |-> FALSE, buffer |-> buf, lines |-> <<>>],
                 map, build_file_map(labels, <<>>), key_order)

\* HashMap::keys() yields every key once, in an order the map does not fix:
\* each HashMap::new() is seeded afresh.
keys(S) == {o \in [1..Cardinality(S) -> S] : \A i, j \in DOMAIN o : i # j => o[i] # o[j]}

\* TextBuffer2D::render: each row as its runs of equally styled characters.
RECURSIVE styled_runs(_)
styled_runs(row) ==
    IF row = <<>> THEN <<>>
    ELSE
      LET rest == styled_runs(Tail(row))
      IN  IF rest # <<>> /\ rest[1].style = Head(row).style
          THEN <<[text |-> <<Head(row).ch>> \o rest[1].text, style |-> rest[1].style]>>
               \o Tail(rest)
          ELSE <<[text |-> <<Head(row).ch>>, style |-> Head(row).style]>> \o rest

buffer_render(buf) == [r \in 1..Len(buf) |-> styled_runs(buf[r])]

----------------------------------------------------------------------------
(* The operations of ErrorReporter *)

\* Spans that start on line 1 of the first file and end on line 1 or 2 of it.
LineSpans == {[lo |-> l, hi |-> h] : l \in 0..MaxCol, h \in 0..(2 * LineWidth - 1)}
                 \cap {s \in [lo : Positions, hi : Positions] : s.lo <= s.hi}

\* One-column spans at the start of every line of every file.
DiagSpans == {[lo |-> p, hi |-> p + 1] : p \in {q \in Positions : q % LineWidth = 0}}

\* The primary span of a one-line diagnostic: columns [0, 1) of the line.
PrimaryLineSpans == {s \in LineSpans : s.lo = 0 /\ s.hi = 1}

\* The primary span of a spread diagnostic: the first column of the first file.
PrimaryDiagSpans == {s \in DiagSpans : s.lo = 0}

\* ErrorReporter::new
new(l, msg, span, map) ==
    /\ level = l
    /\ primary_msg = msg
    /\ primary_span = span
    /\ span_labels = <<>>
    /\ cm = map
    /\ pc = "new"
    /\ renders = 0
    /\ buffer = <<>>
    /\ out = <<>>
    /\ prev_out = <<>>
    /\ file_order = <<>>
    /\ lines = <<>>

\* ErrorReporter::span_label
span_label(span, label) ==
    /\ pc = "new"
    /\ span_labels' = Append(span_labels,
                             [span |-> span,
                              is_primary |-> (span = primary_span),
                              label |-> label])
    /\ UNCHANGED <<level, primary_span, primary_msg, cm,
                   pc, renders, buffer, out, prev_out, file_order, lines>>

\* ErrorReporter::render.  A panic ends the program: nothing is returned.
Render ==
    /\ pc # "panicked"
    /\ renders < MaxRenders
    /\ \E key_order \in keys(DOMAIN build_file_map(span_labels, <<>>)) :
         \E st \in {render_source_lines(render_header(<<>>), cm, span_labels, key_order)} :
             /\ pc' = IF st.panicked THEN "panicked" ELSE "rendered"
             /\ buffer' = st.buffer
             /\ out' = IF st.panicked THEN <<>> ELSE buffer_render(st.buffer)
             /\ prev_out' = out
             /\ file_order' = key_order
             /\ lines' = st.lines
    /\ renders' = renders + 1
    /\ UNCHANGED <<level, primary_span, primary_msg, span_labels, cm>>

\* A diagnostic whose spans all start on one source line.
InitLine == \E span \in PrimaryLineSpans : new("Error", <<"m">>, span, AllOk)

SpanLabelLine ==
    /\ Len(span_labels) < MaxLabels
    /\ \E span \in LineSpans, label \in Labels : span_label(span, label)

\* One render call of the one-line diagnostic.
RenderLine == renders = 0 /\ Render

NextLine == SpanLabelLine \/ RenderLine

SpecLine == InitLine /\ [][NextLine]_vars

\* A diagnostic spread over the lines of several files, any of which may be bad.
Init == \E span \in PrimaryDiagSpans, map \in CodeMaps : new("Error", <<"m">>, span, map)

SpanLabel ==
    /\ Len(span_labels) < MaxDiagLabels
    /\ \E span \in DiagSpans, label \in Labels : span_label(span, label)

Next == SpanLabel \/ Render

Spec == Init /\ [][Next]_vars

----------------------------------------------------------------------------
(* Vocabulary of the properties *)

Rendered == pc = "rendered"

\* The file and line a span starts on: the key of its Line in file_map.
LineKey(span) == <<lookup_char_pos(span.lo).file, lookup_char_pos(span.lo).line>>

\* The span labels that were folded into the Line of rec, in span_label order;
\* the j-th of them produced rec.pushed[j].
LabelsOfLine(rec) == SelectSeq(span_labels, LAMBDA sl : LineKey(sl.span) = LineKey(rec.span))

\* The cell of the rendered grid at (row, col); Blank where nothing was written.
Blank == [ch |-> "", style |-> "None"]

Cell(row, col) ==
    IF row < Len(buffer) /\ col < Len(buffer[row + 1]) THEN buffer[row + 1][col + 1] ELSE Blank

\* The rendered grid reads text from (row, col) on, in one of the styles.
Reads(row, col, text, styles) ==
    \A i \in 1..Len(text) :
        Cell(row, col + i - 1).ch = text[i] /\ Cell(row, col + i - 1).style \in styles

LabelStyles == {"LabelPrimary", "LabelSecondary"}

\* Some cell of the row carries label text.
RowHasLabel(row) == \E c \in 0..(Len(buffer[row + 1]) - 1) : Cell(row, c).style \in LabelStyles

\* The spec's overlap: either start column lies in the other's [start, end).
StartWithin(a, b) == b.start_col <= a.start_col /\ a.start_col < b.end_col

ColumnsOverlap(a, b) == StartWithin(a, b) \/ StartWithin(b, a)

\* Index, in the sorted annotations of rec, of the last labeled one.
LastLabeled(rec) ==
    CHOOSE m \in DOMAIN rec.annotations :
        /\ rec.annotations[m].label.some
        /\ \A i \in DOMAIN rec.annotations : rec.annotations[i].label.some => i <= m

\* The last labeled annotation overlaps no other annotation of its line.
LastIsFree(rec) ==
    \A i \in DOMAIN rec.annotations \ {LastLabeled(rec)} :
        ~ColumnsOverlap(rec.annotations[i], rec.annotations[LastLabeled(rec)])

\* The writes the stacked-connector pass made for pending annotation i (0-based).
WritesOf(rec, i, op) == {w \in {rec.writes[k] : k \in DOMAIN rec.writes} : w.owner = i /\ w.op = op}

----------------------------------------------------------------------------
(* C1, C2: the annotation built from a span label *)

\* C1: every span label whose span is zero-width on one line (start column
\* equal to end column) yields an Annotation with end_col = start_col + 1,
\* and the underline row carries a marker at start_col.
C1_ZeroWidthWidened ==
    Rendered =>
      \A k \in DOMAIN lines : \A j \in DOMAIN lines[k].pushed :
        LET sl == LabelsOfLine(lines[k])[j]
            lo == lookup_char_pos(sl.span.lo)
            hi == lookup_char_pos(sl.span.hi)
            a  == lines[k].pushed[j]
        IN  (lo.line = hi.line /\ lo.col = hi.col) =>
              /\ a.end_col = a.start_col + 1
              /\ Cell(lines[k].line_offset + 1, a.start_col).ch \in {"^", "-"}

\* C2: every span label whose span starts and ends on different lines yields
\* an Annotation on the start line with is_minimized = TRUE and
\* end_col = start_col + 1, whatever the end column of the span.
C2_MultiLineMinimized ==
    Rendered =>
      \A k \in DOMAIN lines : \A j \in DOMAIN lines[k].pushed :
        LET sl == LabelsOfLine(lines[k])[j]
            lo == lookup_char_pos(sl.span.lo)
            hi == lookup_char_pos(sl.span.hi)
            a  == lines[k].pushed[j]
        IN  lo.line # hi.line =>
              /\ LineKey(lines[k].span) = <<lo.file, lo.line>>
              /\ a.start_col = lo.col
              /\ a.is_minimized
              /\ a.end_col = a.start_col + 1

----------------------------------------------------------------------------
(* C3, C4: the label on the highlight line *)

AllNonEmpty(rec) ==
    \A i \in DOMAIN rec.annotations : rec.annotations[i].start_col < rec.annotations[i].end_col

\* C4: when the last labeled annotation overlaps no other annotation, so that
\* its label is written on the underline row, a space is at column end_col of
\* that annotation and the label starts at column end_col + 1 of it, wherever
\* the other annotations of the line lie.  Stated for lines whose annotations
\* all cover a column, so that a violation does not rest on the empty
\* annotations of C1 and C2.
C4_LabelRightAfterOwnUnderline ==
    Rendered =>
      \A k \in DOMAIN lines :
        LET rec  == lines[k]
            last == rec.annotations[LastLabeled(rec)]
        IN  (Len(rec.labeled) > 0 /\ AllNonEmpty(rec) /\ LastIsFree(rec)) =>
              Reads(rec.line_offset + 1, last.end_col,
                    <<" ">> \o last.label.text, LabelStyles)

----------------------------------------------------------------------------
(* C7, C8: the sort and the overlap test *)

\* A stable sort of the annotations on the key (start_col, end_col) alone.
RECURSIVE InsertByColumns(_, _)
InsertByColumns(s, a) ==
    IF s = <<>> THEN <<a>>
    ELSE IF a.start_col < Head(s).start_col
            \/ (a.start_col = Head(s).start_col /\ a.end_col < Head(s).end_col)
         THEN <<a>> \o s
         ELSE <<Head(s)>> \o InsertByColumns(Tail(s), a)

RECURSIVE StableSortByColumns(_)
StableSortByColumns(s) ==
    IF s = <<>> THEN <<>>
    ELSE InsertByColumns(StableSortByColumns(SubSeq(s, 1, Len(s) - 1)), s[Len(s)])

LabelRank(l) == IF ~l.some THEN 0 ELSE IF l.text = <<"x">> THEN 1 ELSE 2

\* The five fields as a tuple of numbers, in declaration order.
FieldKey(a) ==
    <<a.start_col, a.end_col, IF a.is_primary THEN 1 ELSE 0,
      IF a.is_minimized THEN 1 ELSE 0, LabelRank(a.label)>>

KeyLeq(x, y) ==
    \/ x = y
    \/ \E i \in 1..5 : x[i] < y[i] /\ \A j \in 1..(i - 1) : x[j] = y[j]

\* How often annotation a occurs in the sequence s.
Occurrences(s, a) == Cardinality({i \in DOMAIN s : s[i] = a})

C8_OverlapsSymmetric ==
    \A k \in DOMAIN lines :
      \A i, j \in DOMAIN lines[k].annotations :
        overlaps(lines[k].annotations[i], lines[k].annotations[j])
          = overlaps(lines[k].annotations[j], lines[k].annotations[i])

\* C8 witness: a rendered line holds an empty range and a wider range around
\* its start column; the test finds them overlapping from both sides.
C8_Witness ==
    /\ Rendered
    /\ \E k \in DOMAIN lines :
         \E i, j \in DOMAIN lines[k].annotations :
           /\ lines[k].annotations[i].start_col = lines[k].annotations[i].end_col
           /\ lines[k].annotations[j].start_col < lines[k].annotations[i].start_col
           /\ lines[k].annotations[i].start_col < lines[k].annotations[j].end_col
           /\ overlaps(lines[k].annotations[i], lines[k].annotations[j])
           /\ overlaps(lines[k].annotations[j], lines[k].annotations[i])

----------------------------------------------------------------------------
(* C9, C10: the stacked connectors *)

\* C9: the pending annotation at 0-based position i of n, with r = n - 1 - i
\* pending annotations after it, gets a `|` write at its start_col on exactly
\* the rows 2 .. 2 + r below the source row and one label write at its
\* start_col on row 3 + r, where the rendered grid reads its label; the labels
\* lie on distinct rows, earlier annotations lower; only labeled annotations
\* are pending, and no other write is made.
C9_StackedRows ==
    Rendered =>
      \A k \in DOMAIN lines :
        LET rec == lines[k]
            off == rec.line_offset
            n   == Len(rec.pending)
        IN  /\ \A w \in DOMAIN rec.writes : rec.writes[w].owner \in 0..(n - 1)
            /\ \A i \in 0..(n - 1) :
                 LET a == rec.pending[i + 1]
                     r == n - 1 - i
                 IN  /\ a.label.some
                     /\ WritesOf(rec, i, "putc") =
                          {[owner |-> i, op |-> "putc", row |-> off + q,
                            col |-> a.start_col, text |-> <<"|">>] : q \in 2..(2 + r)}
                     /\ WritesOf(rec, i, "puts") =
                          {[owner |-> i, op |-> "puts", row |-> off + 3 + r,
                            col |-> a.start_col, text |-> a.label.text]}
                     /\ Reads(off + 3 + r, a.start_col, a.label.text, {label_style(a)})
            /\ Len(rec.writes) = (n * (n + 1)) \div 2 + n
            /\ n > 0 => Len(buffer) >= off + 3 + n

\* C9 witness: two labeled annotations with different start columns are
\* pending on one line; the first has one pending annotation after it, its `|`
\* on rows 2 and 3 and its label on row 4 below the source row, and the second
\* has its label on row 3.
C9_Witness ==
    /\ Rendered
    /\ \E k \in DOMAIN lines :
         /\ Len(lines[k].pending) = 2
         /\ lines[k].pending[1].start_col < lines[k].pending[2].start_col
         /\ Cell(lines[k].line_offset + 2, lines[k].pending[1].start_col).ch = "|"
         /\ Cell(lines[k].line_offset + 3, lines[k].pending[1].start_col).ch = "|"
         /\ Reads(lines[k].line_offset + 4, lines[k].pending[1].start_col,
                  lines[k].pending[1].label.text, LabelStyles)
         /\ Reads(lines[k].line_offset + 3, lines[k].pending[2].start_col,
                  lines[k].pending[2].label.text, LabelStyles)

\* C10: in the rendered grid the connector column of every pending annotation
\* holds its `|` on every row from offset 2 down to the row above its label:
\* no label of another annotation covers one of these cells.  Stated for lines
\* whose annotations all cover a column, so that a violation does not rest on
\* the empty annotations of C1 and C2.
C10_ConnectorsUnobstructed ==
    Rendered =>
      \A k \in DOMAIN lines :
        LET rec == lines[k]
            n   == Len(rec.pending)
        IN  AllNonEmpty(rec) =>
              \A i \in 0..(n - 1) : \A q \in 2..(2 + (n - 1 - i)) :
                Cell(rec.line_offset + q, rec.pending[i + 1].start_col).ch = "|"

----------------------------------------------------------------------------
(* C5, C6: render as a whole *)

\* The keys of the Lines of the diagnostic.
LineKeys == {LineKey(span_labels[i].span) : i \in DOMAIN span_labels}

\* C5: a render call returns, whatever the code map answers for the lines:
\* the result holds both header rows and one rendering per Line, with an empty
\* source text for a Line whose lookup failed.
C5_BadLineDoesNotAbort ==
    renders > 0 =>
      /\ pc = "rendered"
      /\ Len(out) >= 2
      /\ out[1][1].style = "Level"
      /\ out[2][1].style = "LineAndColumn"
      /\ {LineKey(lines[k].span) : k \in DOMAIN lines} = LineKeys
      /\ \A k \in DOMAIN lines :
           cm[LineKey(lines[k].span)] # "ok" => lines[k].source_string = <<>>

\* C6: render emits the files in alphabetical order and the lines of a file
\* in ascending order, and a second render of the same diagnostic returns the
\* rows the first returned.
C6_DeterministicOrder ==
    Rendered =>
      /\ \A i, j \in DOMAIN file_order :
           i < j => NameIndex(file_order[i]) < NameIndex(file_order[j])
      /\ \A i, j \in DOMAIN lines :
           i < j =>
             \/ NameIndex(LineKey(lines[i].span)[1]) < NameIndex(LineKey(lines[j].span)[1])
             \/ /\ LineKey(lines[i].span)[1] = LineKey(lines[j].span)[1]
                /\ LineKey(lines[i].span)[2] < LineKey(lines[j].span)[2]
      /\ renders >= 2 => out = prev_out

====
